---- MODULE Spec2Model ----
(***************************************************************************)
(* Model of the asset data adaptor: AssetValidator (asset_validator.py)    *)
(* and CsvConverter (csv_converter.py).                                    *)
(*                                                                         *)
(* A Python str is a sequence of one-character strings, so that strip,     *)
(* split, int(), re.match and strptime are computed character by character.*)
(***************************************************************************)
EXTENDS Integers, Sequences, FiniteSets, TLC

\* ------------------------------------------------------------------------
\* Characters and str methods
\* ------------------------------------------------------------------------

DigitChars == <<"0", "1", "2", "3", "4", "5", "6", "7", "8", "9">>

UpperChars == <<"A", "B", "C", "D", "E", "F", "G", "H", "I", "J", "K", "L", "M", "N", "O", "P", "Q", "R", "S", "T", "U", "V", "W", "X", "Y", "Z">>

LowerChars == <<"a", "b", "c", "d", "e", "f", "g", "h", "i", "j", "k", "l", "m", "n", "o", "p", "q", "r", "s", "t", "u", "v", "w", "x", "y", "z">>

\* str.isspace characters that occur in the inputs (space, tab, newline).
Whitespace == {" ", "\t", "\n"}

IsDigit(c) == \E i \in 1..10 : DigitChars[i] = c

DigitVal(c) == (CHOOSE i \in 1..10 : DigitChars[i] = c) - 1

\* str.lower on one character (used by the IGNORECASE match of strptime).
Lower(c) ==
    IF \E i \in 1..26 : UpperChars[i] = c
    THEN LowerChars[CHOOSE i \in 1..26 : UpperChars[i] = c]
    ELSE c

LowerText(s) == [i \in 1..Len(s) |-> Lower(s[i])]

\* str.lstrip() and str.rstrip(): whitespace removed at one end.
LStrip(s) ==
    IF \A i \in 1..Len(s) : s[i] \in Whitespace THEN <<>>
    ELSE SubSeq(s, CHOOSE i \in 1..Len(s) :
                       s[i] \notin Whitespace /\ \A j \in 1..(i - 1) : s[j] \in Whitespace,
                Len(s))

RStrip(s) ==
    IF \A i \in 1..Len(s) : s[i] \in Whitespace THEN <<>>
    ELSE SubSeq(s, 1, CHOOSE i \in 1..Len(s) :
                          s[i] \notin Whitespace /\ \A j \in (i + 1)..Len(s) : s[j] \in Whitespace)

\* str.strip(): leading and trailing whitespace removed.
Strip(s) == RStrip(LStrip(s))

\* Position of the k-th separator of s; 0 before the first field and
\* Len(s) + 1 after the last.
SepAt(s, sep, k) ==
    LET at == {i \in 1..Len(s) : s[i] = sep} IN
    IF k = 0 THEN 0
    ELSE IF k > Cardinality(at) THEN Len(s) + 1
    ELSE CHOOSE p \in at : Cardinality({q \in at : q < p}) = k - 1

\* str.split(sep) for a one-character separator: the texts between the
\* separators, always at least one field.
Split(s, sep) ==
    [k \in 1..(Cardinality({i \in 1..Len(s) : s[i] = sep}) + 1) |->
        SubSeq(s, SepAt(s, sep, k - 1) + 1, SepAt(s, sep, k) - 1)]

\* ",".join(fields): used to write the input lines of the model.
RECURSIVE Join(_, _)
Join(fields, sep) ==
    IF fields = <<>> THEN <<>>
    ELSE IF Len(fields) = 1 THEN fields[1]
    ELSE fields[1] \o <<sep>> \o Join(Tail(fields), sep)

\* Value of a string of digits and underscores, left to right.
RECURSIVE DigitsValue(_, _)
DigitsValue(s, acc) ==
    IF s = <<>> THEN acc
    ELSE IF Head(s) = "_" THEN DigitsValue(Tail(s), acc)
    ELSE DigitsValue(Tail(s), 10 * acc + DigitVal(Head(s)))

\* The literal int() accepts after the sign: digits, single underscores
\* only between digits.
IsIntBody(b) ==
    /\ b # <<>>
    /\ \A i \in 1..Len(b) : IsDigit(b[i]) \/ b[i] = "_"
    /\ IsDigit(b[1]) /\ IsDigit(b[Len(b)])
    /\ \A i \in 1..(Len(b) - 1) : ~(b[i] = "_" /\ b[i + 1] = "_")

\* int(str): surrounding whitespace ignored, optional sign, base 10.
\* ok = FALSE is the ValueError "invalid literal for int()".
PyInt(s) ==
    LET t == Strip(s)
        signed == t # <<>> /\ Head(t) \in {"+", "-"}
        b == IF signed THEN Tail(t) ELSE t
    IN  IF IsIntBody(b)
        THEN [ok |-> TRUE,
              val |-> IF signed /\ Head(t) = "-"
                      THEN 0 - DigitsValue(b, 0) ELSE DigitsValue(b, 0)]
        ELSE [ok |-> FALSE, val |-> 0]

\* re.match of a pattern that ends in "$": "$" matches at the end of the
\* string and also just before a newline that ends the string.
DollarCore(s) ==
    IF s # <<>> /\ s[Len(s)] = "\n" THEN {s, SubSeq(s, 1, Len(s) - 1)} ELSE {s}

\* ------------------------------------------------------------------------
\* AssetValidator
\* ------------------------------------------------------------------------

VALID_ASSET_TYPES ==
    (<<"D", "C">> :> <<"D", "u", "a", "l", " ", "T", "o", "u", "c", "a", "n">>)
    @@ (<<"M", "P">> :> <<"J", "u", "n", "c", "t", "i", "o", "n">>)
    @@ (<<"P">> :> <<"P", "e", "l", "i", "c", "a", "n">>)
    @@ (<<"P", "D">> :> <<"P", "e", "d", "e", "s", "t", "r", "i", "a", "n">>)
    @@ (<<"T", "N">> :> <<"T", "o", "u", "c", "a", "n">>)

VALID_STATUS_VALUES == {<<"A", "c", "t", "i", "v", "e">>, <<"P", "r", "o", "p", "o", "s", "e", "d">>, <<"I", "n", "a", "c", "t", "i", "v", "e">>}

VALID_CELL_VALUES == {<<"N", "O", "R", "T">>, <<"E", "A", "S", "T">>, <<"C", "N", "T", "R">>, <<"W", "E", "S", "T">>}

Proposed == <<"P", "r", "o", "p", "o", "s", "e", "d">>

\* A validation method either returns True (Pass) or raises; Raise(m) is the
\* ValueError raised, m naming the message.
Pass == [raised |-> FALSE, msg |-> ""]

Raise(m) == [raised |-> TRUE, msg |-> m]

\* _empty_field_check: `not value or not value.strip()`.
empty_field_check(value, field_name) ==
    IF value = <<>> \/ Strip(value) = <<>> THEN Raise(field_name \o " cannot be empty")
    ELSE Pass

\* r"^\d{2}/\d{6}$" under re.match.
MatchesIdPattern(s) ==
    \E c \in DollarCore(s) :
        /\ Len(c) = 9
        /\ c[3] = "/"
        /\ \A i \in {1, 2} \cup (4..9) : IsDigit(c[i])

validate_asset_id(asset_id) ==
    IF ~MatchesIdPattern(asset_id) THEN Raise("Invalid format for asset ID")
    ELSE Pass

validate_asset_type(asset_type, type_description) ==
    IF asset_type \notin DOMAIN VALID_ASSET_TYPES
    THEN Raise("Invalid asset type value")
    ELSE IF type_description # VALID_ASSET_TYPES[asset_type]
    THEN Raise("Type description does not match asset type")
    ELSE Pass

validate_status(status) ==
    IF status \notin VALID_STATUS_VALUES THEN Raise("Status is not a valid option")
    ELSE Pass

\* Month names of "%b" (C locale), matched ignoring case.
MonthAbbr ==
    <<<<"j", "a", "n">>, <<"f", "e", "b">>, <<"m", "a", "r">>, <<"a", "p", "r">>, <<"m", "a", "y">>, <<"j", "u", "n">>,
      <<"j", "u", "l">>, <<"a", "u", "g">>, <<"s", "e", "p">>, <<"o", "c", "t">>, <<"n", "o", "v">>, <<"d", "e", "c">>>>

\* "%d": 3[0-1] | [1-2]\d | 0[1-9] | [1-9] | " "[1-9].
IsDayText(d) ==
    \/ /\ Len(d) = 1
       /\ IsDigit(d[1]) /\ d[1] # "0"
    \/ /\ Len(d) = 2
       /\ \/ d[1] = "3" /\ d[2] \in {"0", "1"}
          \/ d[1] \in {"1", "2"} /\ IsDigit(d[2])
          \/ d[1] \in {"0", " "} /\ IsDigit(d[2]) /\ d[2] # "0"

IsLeap(y) == (y % 4 = 0) /\ ((y % 100 # 0) \/ (y % 400 = 0))

DaysInMonth(y, m) ==
    IF m = 2 THEN (IF IsLeap(y) THEN 29 ELSE 28)
    ELSE IF m \in {4, 6, 9, 11} THEN 30
    ELSE 31

\* datetime.strptime(s, "%d-%b-%Y"): the date <<year, month, day>>, or
\* ok = FALSE for the ValueError (no match, unconverted data, no such day).
\* dl is the length of the day text; at most one dl can match.
StrptimeAt(s, dl) ==
    /\ Len(s) >= dl + 9
    /\ IsDayText(SubSeq(s, 1, dl))
    /\ s[dl + 1] = "-"
    /\ \E m \in 1..12 : MonthAbbr[m] = LowerText(SubSeq(s, dl + 2, dl + 4))
    /\ s[dl + 5] = "-"
    /\ \A i \in (dl + 6)..(dl + 9) : IsDigit(s[i])

strptime(s) ==
    IF \E dl \in {1, 2} : StrptimeAt(s, dl)
    THEN LET dl == CHOOSE l \in {1, 2} : StrptimeAt(s, l)
             d == PyInt(SubSeq(s, 1, dl)).val
             m == CHOOSE k \in 1..12 : MonthAbbr[k] = LowerText(SubSeq(s, dl + 2, dl + 4))
             y == DigitsValue(SubSeq(s, dl + 6, dl + 9), 0)
         IN  IF Len(s) = dl + 9 /\ y >= 1 /\ d <= DaysInMonth(y, m)
             THEN [ok |-> TRUE, date |-> <<y, m, d>>]
             ELSE [ok |-> FALSE, date |-> <<0, 0, 0>>]
    ELSE [ok |-> FALSE, date |-> <<0, 0, 0>>]

\* The comparison with `>=` in place of `>`.
DateAfter_OrSame(a, b) ==
    \/ a[1] > b[1]
    \/ a[1] = b[1] /\ a[2] > b[2]
    \/ a[1] = b[1] /\ a[2] = b[2] /\ a[3] >= b[3]

\* install_date_obj > ref_date: install_date_obj is midnight of its day and
\* ref_date a moment of the day `today`, so it is later exactly when its
\* day is after today.
DateAfter(a, b) ==
    \/ a[1] > b[1]
    \/ a[1] = b[1] /\ a[2] > b[2]
    \/ a[1] = b[1] /\ a[2] = b[2] /\ a[3] > b[3]

\* The future-date check without the exemption `if status != "Proposed"`.
validate_install_date_AnyStatus(install_date, status, ref_date) ==
    LET install_date_obj == strptime(install_date)
    IN  IF ~install_date_obj.ok THEN Raise("Install date is in an invalid date format")
        ELSE IF DateAfter(install_date_obj.date, ref_date)
        THEN Raise("Install date is in the future for an active/inactive site")
        ELSE Pass

\* ref_date = datetime.now() is the parameter ref_date.
validate_install_date(install_date, status, ref_date) ==
    LET install_date_obj == strptime(install_date)
    IN  IF ~install_date_obj.ok THEN Raise("Install date is in an invalid date format")
        ELSE IF status # Proposed /\ DateAfter(install_date_obj.date, ref_date)
        THEN Raise("Install date is in the future for an active/inactive site")
        ELSE Pass

max_easting == 538216

min_easting == 500442

max_northing == 205415

min_northing == 148012

\* The chained comparison `max > value < min` is (max > value) and (value < min).
\* The inclusive-range test `value < min or value > max`.
OutOfRange_Inclusive(max, value, min) == value < min \/ value > max

OutOfRange(max, value, min) == max > value /\ value < min

validate_easting(easting) ==
    IF empty_field_check(easting, "Easting").raised
    THEN empty_field_check(easting, "Easting")
    ELSE IF ~PyInt(easting).ok THEN Raise("invalid literal for int()")
    ELSE IF OutOfRange(max_easting, PyInt(easting).val, min_easting)
    THEN Raise("Easting out of range for London Area")
    ELSE Pass

validate_northing(northing) ==
    IF empty_field_check(northing, "Northing").raised
    THEN empty_field_check(northing, "Northing")
    ELSE IF ~PyInt(northing).ok THEN Raise("invalid literal for int()")
    ELSE IF OutOfRange(max_northing, PyInt(northing).val, min_northing)
    THEN Raise("Northing out of range for London Area")
    ELSE Pass

validate_location(location) == empty_field_check(location, "Location")

validate_cell(cell) ==
    IF cell \notin VALID_CELL_VALUES THEN Raise("Invalid value for Cell")
    ELSE Pass

\* r"^(G|R)\d+$" under re.match.
MatchesSignalPattern(s) ==
    \E c \in DollarCore(s) :
        /\ Len(c) >= 2
        /\ c[1] \in {"G", "R"}
        /\ \A i \in 2..Len(c) : IsDigit(c[i])

validate_signal_group(signal_group) ==
    IF ~MatchesSignalPattern(signal_group) THEN Raise("Invalid format for Signal Group")
    ELSE Pass

validate_engineer(install_engineer) ==
    empty_field_check(install_engineer, "Install Engineer")

\* Number of fields the tuple assignment of from_csv_record unpacks.
NumFields == 11

\* AssetValidator.__init__: the eleven values stored as given.
Asset(r) ==
    [asset_id |-> r[1], asset_type |-> r[2], type_description |-> r[3],
     install_date |-> r[4], easting |-> r[5], northing |-> r[6],
     location |-> r[7], cell |-> r[8], signal_group |-> r[9],
     status |-> r[10], install_engineer |-> r[11]]

NoAsset == [asset_id |-> <<>>]

\* The validation calls of from_csv_record in the order the code makes them.
Validations(r, ref_date) ==
    <<validate_asset_id(r[1]),
      validate_asset_type(r[2], r[3]),
      validate_status(r[10]),
      validate_install_date(r[4], r[10], ref_date),
      validate_easting(r[5]),
      validate_northing(r[6]),
      validate_location(r[7]),
      validate_cell(r[8]),
      validate_signal_group(r[9]),
      validate_engineer(r[11])>>

\* The first call that raises ends from_csv_record; 0 when none raises.
FirstRaised(vs) ==
    IF \E i \in 1..Len(vs) : vs[i].raised
    THEN CHOOSE i \in 1..Len(vs) : vs[i].raised /\ \A j \in 1..(i - 1) : ~vs[j].raised
    ELSE 0

\* from_csv_record: ok with the Asset constructed, or the exception raised.
\* step is the validation call that raised (0: the unpacking, before any).
\* The unpacking taking the first eleven values of a longer record.
from_csv_record_FirstEleven(csv_record, ref_date) ==
    IF Len(csv_record) < NumFields
    THEN [ok |-> FALSE, asset |-> NoAsset, error |-> "wrong number of values to unpack",
          step |-> 0]
    ELSE LET r == SubSeq(csv_record, 1, NumFields)
             vs == Validations(r, ref_date)
             k == FirstRaised(vs)
         IN  IF k # 0
             THEN [ok |-> FALSE, asset |-> NoAsset, error |-> vs[k].msg, step |-> k]
             ELSE [ok |-> TRUE, asset |-> Asset(r), error |-> "", step |-> 0]

from_csv_record(csv_record, ref_date) ==
    IF Len(csv_record) # NumFields
    THEN [ok |-> FALSE, asset |-> NoAsset, error |-> "wrong number of values to unpack",
          step |-> 0]
    ELSE LET vs == Validations(csv_record, ref_date)
             k == FirstRaised(vs)
         IN  IF k # 0
             THEN [ok |-> FALSE, asset |-> NoAsset, error |-> vs[k].msg, step |-> k]
             ELSE [ok |-> TRUE, asset |-> Asset(csv_record), error |-> "", step |-> 0]

\* ------------------------------------------------------------------------
\* CsvConverter
\* ------------------------------------------------------------------------

\* Python values whose type the outputs distinguish.
Str(s) == [type |-> "str", value |-> s]

IntObj(n) == [type |-> "int", value |-> n]

None == [type |-> "NoneType"]

\* header_line = None is written <<>>: split never returns an empty list.
NoHeader == <<>>

\* ord() of the characters a validated coordinate can hold, and of the
\* other characters of the inputs (their ASCII codes).
Ord(c) ==
    IF c = "\t" THEN 9
    ELSE IF c = "\n" THEN 10
    ELSE IF c = " " THEN 32
    ELSE IF c = "+" THEN 43
    ELSE IF c = "-" THEN 45
    ELSE IF c = "/" THEN 47
    ELSE IF IsDigit(c) THEN 48 + DigitVal(c)
    ELSE IF \E i \in 1..26 : UpperChars[i] = c
    THEN 64 + (CHOOSE i \in 1..26 : UpperChars[i] = c)
    ELSE IF c = "_" THEN 95
    ELSE 96 + (CHOOSE i \in 1..26 : LowerChars[i] = c)

\* a < b for two str: lexicographic by code point.
RECURSIVE StrLess(_, _)
StrLess(a, b) ==
    IF b = <<>> THEN FALSE
    ELSE IF a = <<>> THEN TRUE
    ELSE IF Head(a) = Head(b) THEN StrLess(Tail(a), Tail(b))
    ELSE Ord(Head(a)) < Ord(Head(b))

\* min() and max() of a non-empty list of str.
min(xs) ==
    xs[CHOOSE i \in 1..Len(xs) : \A j \in 1..Len(xs) : ~StrLess(xs[j], xs[i])]

max(xs) ==
    xs[CHOOSE i \in 1..Len(xs) : \A j \in 1..Len(xs) : ~StrLess(xs[i], xs[j])]

\* The dictionary without int() around the two coordinates.
asset_to_json_NoCoercion(asset) ==
    [ID |-> Str(asset.asset_id),
     TYPE |-> Str(asset.asset_type),
     TYPE_DESC |-> Str(asset.type_description),
     INSTALL_DATE |-> Str(asset.install_date),
     EASTING |-> Str(asset.easting),
     NORTHING |-> Str(asset.northing),
     LOCATION |-> Str(asset.location),
     CELL |-> Str(asset.cell),
     SIGNAL_GROUP |-> Str(asset.signal_group),
     STATUS |-> Str(asset.status),
     INSTALL_ENGINEER |-> Str(asset.install_engineer)]

asset_to_json(asset) ==
    [ID |-> Str(asset.asset_id),
     TYPE |-> Str(asset.asset_type),
     TYPE_DESC |-> Str(asset.type_description),
     INSTALL_DATE |-> Str(asset.install_date),
     EASTING |-> IntObj(PyInt(asset.easting).val),
     NORTHING |-> IntObj(PyInt(asset.northing).val),
     LOCATION |-> Str(asset.location),
     CELL |-> Str(asset.cell),
     SIGNAL_GROUP |-> Str(asset.signal_group),
     STATUS |-> Str(asset.status),
     INSTALL_ENGINEER |-> Str(asset.install_engineer)]

\* asset_to_json raises when int() of a coordinate raises.
asset_to_json_raises(asset) ==
    ~PyInt(asset.easting).ok \/ ~PyInt(asset.northing).ok

\* list.append(x).
ListAppend_Front(list, x) == <<x>> \o list

ListAppend(list, x) == Append(list, x)

\* `except Exception` around from_csv_record catches whatever it raised.
Caught_TypeErrorOnly(made) == FALSE

Caught(made) == TRUE

expected_headers ==
    <<<<"I", "D">>, <<"T", "Y", "P", "E">>, <<"T", "Y", "P", "E", "_", "D", "E", "S", "C">>, <<"I", "N", "S", "T", "A", "L", "L", "_", "D", "A", "T", "E">>, <<"E", "A", "S", "T", "I", "N", "G">>,
      <<"N", "O", "R", "T", "H", "I", "N", "G">>, <<"L", "O", "C", "A", "T", "I", "O", "N">>, <<"C", "E", "L", "L">>, <<"S", "I", "G", "N", "A", "L", "_", "G", "R", "O", "U", "P">>, <<"S", "T", "A", "T", "U", "S">>,
      <<"I", "N", "S", "T", "A", "L", "L", "_", "E", "N", "G", "I", "N", "E", "E", "R">>>>

\* `header_line != expected_headers`.
HeaderMismatch_FirstNameOnly(header) == header[1] # expected_headers[1]

HeaderMismatch(header) == header # expected_headers

\* `file_path.split(".")[-1] != "csv"`.
IsNotCsv(path) ==
    LET parts == Split(path, ".") IN parts[Len(parts)] # <<"c", "s", "v">>

\* The same reduction with the coordinates converted by int() first.
BoundingBoxOf_Int(assets) ==
    LET northings == [i \in 1..Len(assets) |-> PyInt(assets[i].northing).val]
        eastings == [i \in 1..Len(assets) |-> PyInt(assets[i].easting).val]
        least(xs) == CHOOSE x \in {xs[i] : i \in 1..Len(xs)} :
                         \A j \in 1..Len(xs) : x <= xs[j]
        most(xs) == CHOOSE x \in {xs[i] : i \in 1..Len(xs)} :
                        \A j \in 1..Len(xs) : x >= xs[j]
    IN  [min_northing |-> IntObj(least(northings)),
         max_northing |-> IntObj(most(northings)),
         min_easting |-> IntObj(least(eastings)),
         max_easting |-> IntObj(most(eastings))]

\* The bounding box computed from the asset list: the coordinates are the
\* assets' str fields, compared as str.
BoundingBoxOf(assets) ==
    LET northings == [i \in 1..Len(assets) |-> assets[i].northing]
        eastings == [i \in 1..Len(assets) |-> assets[i].easting]
    IN  [min_northing |-> Str(min(northings)),
         max_northing |-> Str(max(northings)),
         min_easting |-> Str(min(eastings)),
         max_easting |-> Str(max(eastings))]

\* ------------------------------------------------------------------------
\* Inputs
\* ------------------------------------------------------------------------

\* The record of the tests (VALID_CSV_RECORD).
ValidRecord ==
    <<<<"1", "2", "/", "3", "4", "5", "6", "7", "8">>, <<"D", "C">>, <<"D", "u", "a", "l", " ", "T", "o", "u", "c", "a", "n">>, <<"1", "0", "-", "A", "p", "r", "-", "2", "0", "2", "3">>, <<"5", "3", "1", "6", "9", "5">>,
      <<"1", "8", "1", "4", "6", "5">>, <<"V", "a", "l", "i", "d", " ", "L", "o", "c", "a", "t", "i", "o", "n">>, <<"N", "O", "R", "T">>, <<"R", "8", "0", "1">>, <<"A", "c", "t", "i", "v", "e">>,
      <<"V", "a", "l", "i", "d", " ", "E", "n", "g", "i", "n", "e", "e", "r">>>>

\* Values tried in place of each field of ValidRecord.
FieldValues ==
    <<{<<"1", "2", "/", "3", "4", "5", "6", "7">>, <<"1", "2", "/", "3", "4", "5", "6", "7", "8", "\n">>},
      {<<"D">>, <<"T", "N">>},
      {<<"T", "o", "u", "c", "a", "n">>},
      {<<"2", "9", "-", "J", "a", "n", "-", "2", "0", "3", "0">>, <<"0", "3", "-", "N", "o", "v", "-", "2", "0", "2", "6">>, <<"0", "4", "-", "N", "o", "v", "-", "2", "0", "2", "6">>,
       <<"1", "0", "-", "p", "r", "-", "2", "0", "2", "3">>, <<"3", "1", "-", "A", "p", "r", "-", "2", "0", "2", "3">>, <<"1", "-", "a", "p", "r", "-", "2", "0", "2", "3">>},
      {<<>>, <<"I", "n", "v", "a", "l", "i", "d">>, <<"1", "2", "3", "4", "5", "6">>,
       <<"5", "0", "0", "4", "4", "1">>, <<"5", "0", "0", "4", "4", "2">>,
       <<"5", "3", "8", "2", "1", "6">>, <<"5", "3", "8", "2", "1", "7">>,
       <<"0", "5", "3", "8", "2", "1", "6">>, <<"1", "0", "0", "0", "0", "0", "0">>},
      {<<>>, <<"1", "8", "1", "6", "5">>, <<"1", "4", "8", "0", "1", "1">>, <<"1", "4", "8", "0", "1", "2">>, <<"2", "0", "5", "4", "1", "5">>, <<"2", "0", "5", "4", "1", "6">>,
       <<"6", "5", "4", "3", "2", "1">>},
      {<<>>, <<" ">>},
      {<<"N", "o", "r", "t">>, <<"E", "A", "S", "T">>},
      {<<"G">>, <<"G", "1">>, <<"G", "1", "\n">>, <<"X", "1", "2">>},
      {<<"P", "r", "o", "p", "o", "s", "e", "d">>, <<"I", "n", "a", "c", "t", "i", "v", "e">>, <<"U", "n", "k", "n", "o", "w", "n">>},
      {<<>>, <<" ">>}>>

\* Number of fields of ValidRecord replaced at once.
MaxReplaced == 2

RECURSIVE Replaced(_)
Replaced(n) ==
    IF n = 0 THEN {ValidRecord}
    ELSE Replaced(n - 1) \cup
         UNION {{[r EXCEPT ![i] = v] : r \in Replaced(n - 1), v \in FieldValues[i]} :
                i \in 1..NumFields}

\* Records given to from_csv_record: eleven fields, and too few or too many.
RecordInputs ==
    {r \in Replaced(MaxReplaced) : Len(r) = NumFields}
    \cup {SubSeq(ValidRecord, 1, 3), ValidRecord \o <<<<"x">>>>, <<<<>>>>}

\* The days datetime.now() falls on.
Days == <<<<2026, 11, 3>>, <<2031, 1, 1>>>>

Newline == <<"\n">>

HeaderText == Join(expected_headers, ",")

HeaderLines ==
    {HeaderText \o Newline,
     HeaderText \o <<" ">> \o Newline,
     <<"I", "D", ",", "T", "Y", "P", "E", ",", "I", "N", "C", "O", "R", "R", "E", "C", "T", "_", "H", "E", "A", "D", "E", "R", "\n">>}

LineOf(r) == Join(r, ",") \o Newline

\* Data lines: the valid record; a valid record whose easting has a leading
\* zero; the test's record with TYPE D; a northing above the range; a line
\* of three fields.
DataLines ==
    {LineOf(ValidRecord),
     LineOf([ValidRecord EXCEPT ![5] = <<"0", "5", "3", "8", "2", "1", "6">>,
                                    ![6] = <<"1", "4", "8", "0", "1", "2">>]),
     LineOf([ValidRecord EXCEPT ![2] = <<"D">>]),
     LineOf([ValidRecord EXCEPT ![6] = <<"2", "0", "5", "4", "1", "6">>]),
     <<"1", ",", "T", "y", "p", "e", ",", "V", "a", "l", "u", "e", "\n">>}

FilePaths == {<<"t", "e", "s", "t", ".", "c", "s", "v">>, <<"t", "e", "s", "t", ".", "t", "x", "t">>, <<"d", "a", "t", "a">>}

\* Most records the converter's two lists hold together.
MaxRecords == 3

\* ------------------------------------------------------------------------
\* State
\* ------------------------------------------------------------------------

VARIABLES
    today,           \* the day datetime.now() falls on
    pc,              \* "new", "reading", "returned", "TypeError", "ValueError"
    file_path,       \* argument of the call of process_csv_file
    lines,           \* the lines the loop has read from csv_file in this call
    header_line,     \* local of process_csv_file
    count,           \* local of process_csv_file
    valid_assets,    \* self.valid_assets
    invalid_assets,  \* self.invalid_assets
    bounding_box,    \* self.bounding_box
    json_data,       \* self.json_data
    result,          \* the tuple the last finished call returned, as returned
    prev_result,     \* the tuple the call before it returned, as returned
    log,             \* messages this call wrote to the logger
    csv_record,      \* argument of a direct call of from_csv_record
    outcome,         \* what the last such call did
    earlier_outcome, \* what the call before it did
    projected        \* what the last direct call of asset_to_json did

vars ==
    <<today, pc, file_path, lines, header_line, count, valid_assets, invalid_assets,
      bounding_box, json_data, result, prev_result, log, csv_record, outcome,
      earlier_outcome, projected>>

\* The state of the direct calls of from_csv_record and asset_to_json.
direct == <<csv_record, outcome, earlier_outcome, projected>>

converter == <<valid_assets, invalid_assets, bounding_box, json_data>>

\* returned = FALSE: no call has returned yet.
NoResult ==
    [json_data |-> <<>>, bounding_box |-> None, invalid_assets |-> <<>>,
     returned |-> FALSE]

\* outcome: whether from_csv_record was called, the day it ran on and what
\* it did.
NotCalled ==
    [called |-> FALSE, ref_date |-> <<0, 0, 0>>,
     made |-> [ok |-> FALSE, asset |-> NoAsset, error |-> "", step |-> 0]]

\* projected: whether asset_to_json was called, the Asset given, whether the
\* call raised (int() of a coordinate) and the mapping returned.
NotProjected == [called |-> FALSE, asset |-> NoAsset, raised |-> FALSE, json |-> None]

\* CsvConverter.__init__, before any call.
InitConverter ==
    /\ valid_assets = <<>>
    /\ invalid_assets = <<>>
    /\ bounding_box = None
    /\ json_data = <<>>

Init ==
    /\ today = Days[1]
    /\ pc = "new"
    /\ file_path = <<>>
    /\ lines = <<>>
    /\ header_line = NoHeader
    /\ count = 0
    /\ InitConverter
    /\ result = NoResult
    /\ prev_result = NoResult
    /\ log = <<>>
    /\ csv_record = ValidRecord
    /\ outcome = NotCalled
    /\ earlier_outcome = NotCalled
    /\ projected = NotProjected

\* Time passes between two steps.
Tick ==
    /\ \E i \in 1..(Len(Days) - 1) : today = Days[i] /\ today' = Days[i + 1]
    /\ UNCHANGED <<pc, file_path, lines, header_line, count, converter, result,
                   prev_result, log, direct>>

\* process_csv_file(path) up to the first iteration of the loop: the
\* extension check, then the file is opened.
Call(path) ==
    /\ pc \in {"new", "returned", "TypeError", "ValueError"}
    /\ file_path' = path
    /\ count' = 0
    /\ lines' = <<>>
    /\ log' = <<>>
    /\ header_line' = NoHeader
    /\ pc' = IF IsNotCsv(path) THEN "TypeError" ELSE "reading"
    /\ UNCHANGED <<today, converter, result, prev_result, direct>>

\* The iteration with line_number = 0.
ReadHeader(line) ==
    /\ pc = "reading"
    /\ lines = <<>>
    /\ lines' = <<line>>
    /\ header_line' = Split(Strip(line), ",")
    /\ IF HeaderMismatch(header_line')
       THEN /\ log' = Append(log, [level |-> "ERROR", about |-> Str(<<>>),
                                    message |-> "CSV headers are"])
            /\ pc' = "ValueError"
       ELSE UNCHANGED <<log, pc>>
    /\ UNCHANGED <<today, file_path, count, converter, result, prev_result,
                   direct>>

\* An iteration with line_number > 0.
ReadRecord(line) ==
    /\ pc = "reading"
    /\ lines # <<>>
    /\ Len(valid_assets) + Len(invalid_assets) < MaxRecords
    /\ lines' = Append(lines, line)
    /\ count' = count + 1
    /\ LET record == Split(Strip(line), ",")
           made == from_csv_record(record, today)
       IN  IF made.ok
           THEN /\ valid_assets' = ListAppend(valid_assets, made.asset)
                /\ UNCHANGED <<invalid_assets, log, pc>>
           ELSE IF Caught(made)
           THEN /\ invalid_assets' = ListAppend(invalid_assets, record)
                /\ log' = Append(log, [level |-> "ERROR", about |-> Str(record[1]),
                                        message |-> made.error])
                /\ UNCHANGED <<valid_assets, pc>>
           ELSE /\ pc' = "ValueError"
                /\ UNCHANGED <<valid_assets, invalid_assets, log>>
    /\ UNCHANGED <<today, file_path, header_line, bounding_box, json_data,
                   result, prev_result, direct>>

\* The file has no further line: the summary, the bounding box, the JSON
\* records and the return. The returned tuple holds self.json_data (a new
\* list), self.bounding_box and the list object self.invalid_assets.
EndOfFile ==
    /\ pc = "reading"
    /\ log' = Append(log, [level |-> "INFO", about |-> Str(<<>>),
                            message |-> <<count, Len(invalid_assets)>>])
    /\ bounding_box' = IF valid_assets # <<>> THEN BoundingBoxOf(valid_assets)
                       ELSE bounding_box
    /\ json_data' = [i \in 1..Len(valid_assets) |-> asset_to_json(valid_assets[i])]
    /\ result' = [json_data |-> json_data', bounding_box |-> bounding_box',
                  invalid_assets |-> invalid_assets, returned |-> TRUE]
    /\ prev_result' = result
    /\ pc' = "returned"
    /\ UNCHANGED <<today, file_path, lines, header_line, count, valid_assets,
                   invalid_assets, direct>>

\* A direct call AssetValidator.from_csv_record(csv_record).
ValidateRecord ==
    /\ outcome' = [called |-> TRUE, ref_date |-> today,
                   made |-> from_csv_record(csv_record, today)]
    /\ earlier_outcome' = outcome
    /\ UNCHANGED <<today, pc, file_path, lines, header_line, count, converter, result,
                   prev_result, log, csv_record, projected>>

\* A direct call CsvConverter.asset_to_json(asset) on the Asset the last
\* call of from_csv_record returned.
ProjectAsset ==
    /\ outcome.called
    /\ outcome.made.ok
    /\ projected' =
        IF asset_to_json_raises(outcome.made.asset)
        THEN [called |-> TRUE, asset |-> outcome.made.asset, raised |-> TRUE,
              json |-> None]
        ELSE [called |-> TRUE, asset |-> outcome.made.asset, raised |-> FALSE,
              json |-> asset_to_json(outcome.made.asset)]
    /\ UNCHANGED <<today, pc, file_path, lines, header_line, count, converter, result,
                   prev_result, log, csv_record, outcome, earlier_outcome>>

Next ==
    \/ Tick
    \/ \E path \in FilePaths : Call(path)
    \/ \E line \in HeaderLines : ReadHeader(line)
    \/ \E line \in DataLines : ReadRecord(line)
    \/ EndOfFile

Spec == Init /\ [][Next]_vars

\* from_csv_record alone, on each record of RecordInputs.
InitRecord ==
    /\ today = Days[1]
    /\ pc = "new"
    /\ file_path = <<>>
    /\ lines = <<>>
    /\ header_line = NoHeader
    /\ count = 0
    /\ InitConverter
    /\ result = NoResult
    /\ prev_result = NoResult
    /\ log = <<>>
    /\ csv_record \in RecordInputs
    /\ outcome = NotCalled
    /\ earlier_outcome = NotCalled
    /\ projected = NotProjected

NextRecord ==
    \/ Tick
    \/ ValidateRecord
    \/ ProjectAsset

SpecRecord == InitRecord /\ [][NextRecord]_vars

\* process_csv_file on source names without an extension and on data lines
\* that do not hold eleven fields or carry whitespace at an end.
ExtensionPaths == {<<"t", "e", "s", "t", ".", "c", "s", "v">>, <<"c", "s", "v">>, <<"d", "a", "t", "a">>}

\* Data lines: the valid record; three fields and a space before the line
\* end; twelve fields; a blank line.
MalformedLines ==
    {LineOf(ValidRecord),
     <<"1", ",", "T", "y", "p", "e", ",", "V", "a", "l", "u", "e", " ", "\n">>,
     LineOf(ValidRecord \o <<<<"x">>>>),
     Newline}

NextMalformed ==
    \/ \E path \in ExtensionPaths : Call(path)
    \/ ReadHeader(HeaderText \o Newline)
    \/ \E line \in MalformedLines : ReadRecord(line)
    \/ EndOfFile

SpecMalformed == Init /\ [][NextMalformed]_vars

\* What a returned tuple shows now: its third component is the list object
\* self.invalid_assets, which later calls append to; json_data and
\* bounding_box are objects made anew by the call that returned them.
Now(r) == [r EXCEPT !.invalid_assets = invalid_assets]

\* ------------------------------------------------------------------------
\* Properties
\* ------------------------------------------------------------------------

\* The data lines of the call in progress or last made, in input order.
DataLinesRead == IF lines = <<>> THEN <<>> ELSE Tail(lines)

RecordOf(line) == Split(Strip(line), ",")

\* Whether validation accepts the record of a line (no line of DataLines
\* holds a date after Days[1], so the day does not matter).
Accepted(line) == from_csv_record(RecordOf(line), today).ok

RECURSIVE AssetsOf(_)
AssetsOf(ls) ==
    IF ls = <<>> THEN <<>>
    ELSE IF Accepted(Head(ls)) THEN <<Asset(RecordOf(Head(ls)))>> \o AssetsOf(Tail(ls))
    ELSE AssetsOf(Tail(ls))

RECURSIVE RejectedOf(_)
RejectedOf(ls) ==
    IF ls = <<>> THEN <<>>
    ELSE IF Accepted(Head(ls)) THEN RejectedOf(Tail(ls))
    ELSE <<RecordOf(Head(ls))>> \o RejectedOf(Tail(ls))

ProjectedOf(ls) == [i \in 1..Len(AssetsOf(ls)) |-> asset_to_json(AssetsOf(ls)[i])]

\* The tuple returned before the call in progress or last made began.
Before == IF pc = "returned" THEN prev_result ELSE result

SeqMin(xs) == CHOOSE x \in {xs[i] : i \in 1..Len(xs)} : \A j \in 1..Len(xs) : x <= xs[j]

SeqMax(xs) == CHOOSE x \in {xs[i] : i \in 1..Len(xs)} : \A j \in 1..Len(xs) : x >= xs[j]

\* The integer an output value stands for.
NumberOf(v) == IF v.type = "int" THEN v.value ELSE PyInt(v.value).val

BoxKeys == {"min_northing", "max_northing", "min_easting", "max_easting"}

\* C1: after process_csv_file returns, every record of the valid output has
\* an easting in [500442, 538216] and a northing in [148012, 205415], both
\* bounds inclusive.
C1_CoordinatesInRange ==
    pc = "returned" =>
        \A i \in 1..Len(result.json_data) :
            /\ result.json_data[i].EASTING.value \in min_easting..max_easting
            /\ result.json_data[i].NORTHING.value \in min_northing..max_northing

\* The formats the record rules name, character by character.
IsTwoSlashSix(s) ==
    /\ Len(s) = 9
    /\ s[3] = "/"
    /\ \A i \in {1, 2} \cup (4..9) : IsDigit(s[i])

IsLetterAndDigits(s) ==
    /\ Len(s) >= 2
    /\ s[1] \in {"G", "R"}
    /\ \A i \in 2..Len(s) : IsDigit(s[i])

IsBlank(s) == \A i \in 1..Len(s) : s[i] \in Whitespace

\* C2: from_csv_record produces an Asset only if the id is two digits, "/",
\* six digits; the type is known and the description is the canonical one;
\* the status is one of the three; the install date parses; location and
\* engineer are not blank; the cell is one of the four; the signal group is
\* G or R followed by one or more digits.
C2_AssetOnlyIfRulesHold ==
    (outcome.called /\ outcome.made.ok) =>
        /\ outcome.made.asset = Asset(csv_record)
        /\ IsTwoSlashSix(csv_record[1])
        /\ csv_record[2] \in DOMAIN VALID_ASSET_TYPES
        /\ csv_record[3] = VALID_ASSET_TYPES[csv_record[2]]
        /\ csv_record[10] \in VALID_STATUS_VALUES
        /\ strptime(csv_record[4]).ok
        /\ ~IsBlank(csv_record[7])
        /\ ~IsBlank(csv_record[11])
        /\ csv_record[8] \in VALID_CELL_VALUES
        /\ IsLetterAndDigits(csv_record[9])

\* The rules in the fixed order id, type/description, status, install_date,
\* easting, northing, location, cell, signal_group, engineer: whether record
\* r violates rule k on the day `day`.
InRange(text, lo, hi) ==
    /\ ~IsBlank(text)
    /\ PyInt(text).ok
    /\ PyInt(text).val \in lo..hi

Violates(k, r, day) ==
    IF k = 1 THEN ~IsTwoSlashSix(r[1])
    ELSE IF k = 2 THEN \/ r[2] \notin DOMAIN VALID_ASSET_TYPES
                       \/ r[3] # VALID_ASSET_TYPES[r[2]]
    ELSE IF k = 3 THEN r[10] \notin VALID_STATUS_VALUES
    ELSE IF k = 4 THEN \/ ~strptime(r[4]).ok
                       \/ r[10] # Proposed /\ DateAfter(strptime(r[4]).date, day)
    ELSE IF k = 5 THEN ~InRange(r[5], min_easting, max_easting)
    ELSE IF k = 6 THEN ~InRange(r[6], min_northing, max_northing)
    ELSE IF k = 7 THEN IsBlank(r[7])
    ELSE IF k = 8 THEN r[8] \notin VALID_CELL_VALUES
    ELSE IF k = 9 THEN ~IsLetterAndDigits(r[9])
    ELSE IsBlank(r[11])

FirstViolated(r, day) ==
    IF \E k \in 1..10 : Violates(k, r, day)
    THEN CHOOSE k \in 1..10 :
             Violates(k, r, day) /\ \A j \in 1..(k - 1) : ~Violates(j, r, day)
    ELSE 0

\* C3: an 11-field record that violates at least one rule is rejected, and
\* the one reason given is that of the first violated rule in the fixed
\* order (for the type rule, unknown type before description mismatch).
C3_FirstViolatedRuleRejects ==
    LET k == FirstViolated(csv_record, outcome.ref_date) IN
    (outcome.called /\ Len(csv_record) = NumFields /\ k # 0) =>
        /\ ~outcome.made.ok
        /\ outcome.made.step = k
        /\ k = 2 =>
            outcome.made.error =
                IF csv_record[2] \notin DOMAIN VALID_ASSET_TYPES
                THEN "Invalid asset type value"
                ELSE "Type description does not match asset type"

\* C4: once the header is accepted no record's failure ends the call or
\* reaches the caller: an exception leaves process_csv_file only before the
\* first line (TypeError) or at the header (ValueError), and every data line
\* read has added one entry to the valid list or to the rejected list, so
\* that on a fresh converter the two lists together hold as many entries as
\* there are data lines.
C4_EveryLineInOneList ==
    /\ pc = "TypeError" => lines = <<>>
    /\ pc = "ValueError" => Len(lines) = 1 /\ header_line # expected_headers
    /\ (pc \in {"reading", "returned"} /\ lines # <<>>) =>
        /\ count = Len(lines) - 1
        /\ Len(valid_assets) >= Len(Before.json_data)
        /\ Len(invalid_assets) >= Len(Before.invalid_assets)
        /\ (Len(valid_assets) - Len(Before.json_data))
            + (Len(invalid_assets) - Len(Before.invalid_assets)) = Len(lines) - 1
        /\ ~Before.returned => Len(valid_assets) + Len(invalid_assets) = Len(lines) - 1

\* A fresh converter has returned from a file with a valid and a rejected
\* data line.
C4_Witness ==
    /\ pc = "returned"
    /\ ~prev_result.returned
    /\ Len(lines) >= 3
    /\ result.json_data # <<>>
    /\ result.invalid_assets # <<>>

\* C5: what a call returns comes from that call's input alone, also on a
\* converter used before, and the lists an earlier call returned are not
\* changed by a later call.
C5_ResultsOfThisCallOnly ==
    pc = "returned" =>
        /\ result.json_data = ProjectedOf(DataLinesRead)
        /\ Now(result).invalid_assets = RejectedOf(DataLinesRead)
        /\ result.bounding_box =
            IF AssetsOf(DataLinesRead) = <<>> THEN None
            ELSE BoundingBoxOf(AssetsOf(DataLinesRead))
        /\ prev_result.returned => Now(prev_result) = prev_result

\* C6: on return the bounding box is None exactly when the valid set is
\* empty, and otherwise its four values are the numeric minimum and maximum
\* of the eastings and northings of the valid assets.
C6_BoundingBoxIsNumericMinMax ==
    pc = "returned" =>
        LET js == result.json_data
            es == [i \in 1..Len(js) |-> js[i].EASTING.value]
            ns == [i \in 1..Len(js) |-> js[i].NORTHING.value]
            box == result.bounding_box
        IN  /\ (box = None) <=> (js = <<>>)
            /\ js # <<>> =>
                /\ NumberOf(box.min_easting) = SeqMin(es)
                /\ NumberOf(box.max_easting) = SeqMax(es)
                /\ NumberOf(box.min_northing) = SeqMin(ns)
                /\ NumberOf(box.max_northing) = SeqMax(ns)

\* C7 as stated: the four values of a returned bounding box are integers,
\* the type of EASTING and NORTHING of the projected assets.
C7_BoundingBoxOfIntegers ==
    (pc = "returned" /\ result.bounding_box # None) =>
        \A k \in BoxKeys :
            /\ result.bounding_box[k].type = "int"
            /\ result.bounding_box[k].type = result.json_data[1].EASTING.type

\* C7 amended: the four values of a returned bounding box are strings, each
\* the easting or northing field text of a valid asset as it stood in the
\* input; EASTING and NORTHING of the projected assets are integers.
C7_BoundingBoxOfFieldTexts ==
    (pc = "returned" /\ result.bounding_box # None) =>
        LET box == result.bounding_box IN
        /\ \A k \in BoxKeys : box[k].type = "str"
        /\ \A k \in {"min_easting", "max_easting"} :
            \E i \in 1..Len(valid_assets) : box[k].value = valid_assets[i].easting
        /\ \A k \in {"min_northing", "max_northing"} :
            \E i \in 1..Len(valid_assets) : box[k].value = valid_assets[i].northing
        /\ \A i \in 1..Len(result.json_data) :
            /\ result.json_data[i].EASTING.type = "int"
            /\ result.json_data[i].NORTHING.type = "int"

\* A call has returned a bounding box over two assets with different
\* eastings.
C7_Witness ==
    /\ pc = "returned"
    /\ result.bounding_box # None
    /\ result.bounding_box.min_easting # result.bounding_box.max_easting

\* C8: the valid output and the rejected output each keep the input order:
\* the entries a call adds are those of its accepted (rejected) data lines in
\* the order of the lines, after the entries already held, and the i-th
\* projected mapping is the projection of the i-th valid asset.
C8_OrderPreserved ==
    /\ pc = "returned" =>
        /\ result.json_data = Before.json_data \o ProjectedOf(DataLinesRead)
        /\ \A i \in 1..Len(valid_assets) :
            result.json_data[i] = asset_to_json(valid_assets[i])
        /\ Len(result.json_data) = Len(valid_assets)
    /\ pc \in {"reading", "returned"} =>
        invalid_assets = Before.invalid_assets \o RejectedOf(DataLinesRead)

\* A call has returned two different valid mappings and a rejected record.
C8_Witness ==
    /\ pc = "returned"
    /\ Len(result.json_data) >= 2
    /\ result.json_data[1] # result.json_data[2]
    /\ result.invalid_assets # <<>>

C10_ReturnOnlyAfterHeader ==
    pc = "returned" => header_line = expected_headers

\* A source name has the csv extension when the text after a "." in it is
\* "csv".
HasCsvExtension(path) ==
    \E i \in 1..Len(path) : path[i] = "." /\ SubSeq(path, i + 1, Len(path)) = <<"c", "s", "v">>

\* C11: a call whose source name has no csv extension, a name with no
\* extension at all included, fails with TypeError before the source is
\* opened or a line is read, and leaves the converter as it was.
C11_NoCsvExtensionFails ==
    (pc # "new" /\ ~HasCsvExtension(file_path)) =>
        /\ pc = "TypeError"
        /\ lines = <<>>
        /\ json_data = result.json_data
        /\ bounding_box = result.bounding_box
        /\ invalid_assets = result.invalid_assets

\* A number that grows with the calendar day <<year, month, day>>.
DayOrdinal(d) == (d[1] * 12 + d[2]) * 31 + d[3]

\* The direct call reached _validate_install_date: eleven fields, and id
\* and type passed.
ReachedInstallDate ==
    /\ outcome.called
    /\ Len(csv_record) = NumFields
    /\ outcome.made.step \notin {1, 2}
    /\ csv_record[10] \in VALID_STATUS_VALUES

\* C12: for a parsable install date and a status of the enumeration,
\* _validate_install_date rejects exactly when the status is not Proposed
\* and the date is strictly after the current date.
C12_FutureDateOnlyForProposed ==
    (ReachedInstallDate /\ strptime(csv_record[4]).ok) =>
        LET future == DayOrdinal(strptime(csv_record[4]).date) > DayOrdinal(outcome.ref_date)
            rejected == ~outcome.made.ok /\ outcome.made.step = 4
        IN  /\ rejected <=> (csv_record[10] # Proposed /\ future)
            /\ rejected =>
                outcome.made.error =
                    "Install date is in the future for an active/inactive site"

\* An Inactive record dated after the day of the call has been rejected for
\* its date.
C12_Witness ==
    /\ ReachedInstallDate
    /\ strptime(csv_record[4]).ok
    /\ csv_record[10] \notin {Proposed, ValidRecord[10]}
    /\ outcome.made.step = 4

\* The record of the two direct calls is not Proposed, reached the install
\* date rule, and its install date lies after the day of the earlier call
\* and not after the day of the later one.
DateCrossed ==
    /\ Len(csv_record) = NumFields
    /\ earlier_outcome.made.step \notin {1, 2}
    /\ csv_record[10] \in VALID_STATUS_VALUES \ {Proposed}
    /\ strptime(csv_record[4]).ok
    /\ DayOrdinal(strptime(csv_record[4]).date) > DayOrdinal(earlier_outcome.ref_date)
    /\ DayOrdinal(strptime(csv_record[4]).date) <= DayOrdinal(outcome.ref_date)

\* C13 (as stated): validating the same record twice, at any two moments,
\* gives the same outcome.
C13_SameOutcomeAtAnyMoment ==
    (outcome.called /\ earlier_outcome.called) => outcome.made = earlier_outcome.made

\* C13 (amended): validating the same record twice gives the same outcome
\* unless the record is Active or Inactive with an install date after the
\* day of the first validation and not after the day of the second; then
\* the first is rejected for a future date and the second is not.
C13_SameOutcomeUnlessDateCrossed ==
    (outcome.called /\ earlier_outcome.called) =>
        /\ (outcome.made # earlier_outcome.made) <=> DateCrossed
        /\ DateCrossed =>
            /\ earlier_outcome.made.step = 4
            /\ earlier_outcome.made.error =
                   "Install date is in the future for an active/inactive site"
            /\ outcome.made.step # 4

\* One record validated on two different days with two different outcomes.
C13_Witness ==
    /\ outcome.called
    /\ earlier_outcome.called
    /\ outcome.ref_date # earlier_outcome.ref_date
    /\ DateCrossed
    /\ outcome.made # earlier_outcome.made

\* The text between the commas of a line, the line terminator left out.
RawFields(line) ==
    IF line # <<>> /\ line[Len(line)] = "\n"
    THEN Split(SubSeq(line, 1, Len(line) - 1), ",")
    ELSE Split(line, ",")

RECURSIVE RejectedRawOf(_)
RejectedRawOf(ls) ==
    IF ls = <<>> THEN <<>>
    ELSE IF Accepted(Head(ls)) THEN RejectedRawOf(Tail(ls))
    ELSE <<RawFields(Head(ls))>> \o RejectedRawOf(Tail(ls))

\* C14: the entries the call has appended to the rejected list are, in
\* order, the field sequences of its rejected lines, each field the text
\* between the commas of the line.
C14_RejectedEntriesVerbatim ==
    pc \in {"reading", "returned"} =>
        LET raw == RejectedRawOf(DataLinesRead)
            n == Len(invalid_assets)
        IN  /\ n >= Len(raw)
            /\ SubSeq(invalid_assets, n - Len(raw) + 1, n) = raw

\* The keys of the output mapping with the index of the raw field of each.
JsonKeys ==
    [ID |-> 1, TYPE |-> 2, TYPE_DESC |-> 3, INSTALL_DATE |-> 4, EASTING |-> 5,
     NORTHING |-> 6, LOCATION |-> 7, CELL |-> 8, SIGNAL_GROUP |-> 9, STATUS |-> 10,
     INSTALL_ENGINEER |-> 11]

\* C15: asset_to_json of a validated Asset does not fail and leaves the
\* Asset as from_csv_record made it; the mapping has exactly the 11 keys,
\* EASTING and NORTHING are the integers the raw easting and northing
\* fields stand for, and every other key is the raw field itself.
C15_ProjectionOfValidatedAsset ==
    projected.called =>
        /\ ~projected.raised
        /\ projected.asset = outcome.made.asset
        /\ projected.asset = Asset(csv_record)
        /\ DOMAIN projected.json = DOMAIN JsonKeys
        /\ \A k \in DOMAIN JsonKeys :
              IF k \in {"EASTING", "NORTHING"}
              THEN /\ projected.json[k].type = "int"
                   /\ PyInt(csv_record[JsonKeys[k]]).ok
                   /\ projected.json[k].value = PyInt(csv_record[JsonKeys[k]]).val
              ELSE /\ projected.json[k].type = "str"
                   /\ projected.json[k].value = csv_record[JsonKeys[k]]

\* A validated Asset whose easting text is not the decimal form of its
\* integer value has been projected.
C15_Witness ==
    /\ projected.called
    /\ ~projected.raised
    /\ Len(csv_record[5]) = 7
    /\ projected.json.EASTING.value = max_easting

\* C16: the count summary logged by a call that has returned reports the
\* number of data lines of that call and the number of them it rejected,
\* so the rejected count is at most the processed count.
C16_SummaryCountsThisCall ==
    pc = "returned" =>
        LET summary == log[Len(log)]
        IN  /\ summary.level = "INFO"
            /\ summary.message[1] = Len(DataLinesRead)
            /\ summary.message[2] = Len(RejectedOf(DataLinesRead))
            /\ summary.message[2] <= summary.message[1]

RangeErrors ==
    {"Easting out of range for London Area", "Northing out of range for London Area"}

\* C17 (as stated): no value makes _validate_easting or _validate_northing
\* raise its out-of-range error.
C17_OutOfRangeNeverRaised ==
    outcome.called => outcome.made.error \notin RangeErrors

\* C17 (amended): `max > value < min` is `value < min`. An integer easting
\* that reaches _validate_easting is rejected as out of range exactly when
\* it is below 500442, and an integer northing that reaches
\* _validate_northing exactly when it is below 148012; values in range and
\* values above the maximum pass.
C17_OutOfRangeOnlyBelowMinimum ==
    (outcome.called /\ Len(csv_record) = NumFields) =>
        /\ (outcome.made.step \notin 1..4 /\ PyInt(csv_record[5]).ok) =>
              ((/\ outcome.made.step = 5
                /\ outcome.made.error = "Easting out of range for London Area")
               <=> PyInt(csv_record[5]).val < min_easting)
        /\ (outcome.made.step \notin 1..5 /\ PyInt(csv_record[6]).ok) =>
              ((/\ outcome.made.step = 6
                /\ outcome.made.error = "Northing out of range for London Area")
               <=> PyInt(csv_record[6]).val < min_northing)
        /\ outcome.made.error \in RangeErrors => outcome.made.step \in {5, 6}

\* A record with an easting below the minimum has been rejected as out of
\* range.
C17_Witness ==
    /\ outcome.called
    /\ Len(csv_record) = NumFields
    /\ outcome.made.step = 5
    /\ outcome.made.error = "Easting out of range for London Area"
    /\ PyInt(csv_record[5]).val < min_easting

\* The step reads one more data line, and the line does not split into
\* eleven fields.
ReadsMalformed(line) ==
    /\ pc = "reading"
    /\ lines # <<>>
    /\ lines' = Append(lines, line)
    /\ Len(RawFields(line)) # NumFields

\* C18: reading a data line that does not split into exactly eleven fields
\* counts it, appends the fields it has to the rejected list, leaves the
\* valid list and the bounding box as they were, and goes on to the next
\* line.
C18_MalformedLineIsRejectedRecord ==
    [][\A line \in MalformedLines :
          ReadsMalformed(line) =>
              /\ count' = count + 1
              /\ invalid_assets' = Append(invalid_assets, RecordOf(line))
              /\ valid_assets' = valid_assets
              /\ bounding_box' = bounding_box
              /\ json_data' = json_data
              /\ pc' = "reading"]_vars

\* A call has read a line of three fields, a line of twelve fields and a
\* blank line, rejected all three and returned.
C18_Witness ==
    /\ pc = "returned"
    /\ {Len(RawFields(DataLinesRead[i])) : i \in 1..Len(DataLinesRead)} = {1, 3, NumFields + 1}
    /\ count = 3
    /\ Len(invalid_assets) = 3
    /\ result.json_data = <<>>
    /\ result.bounding_box = None

====
